---- MODULE Spec2Model ----
(***************************************************************************)
(* A model of the limit-order-book matching engine of src/main.rs.         *)
(*                                                                         *)
(* The state is the Engine struct (buy, sell, last_tick,                   *)
(* uuid_to_side_price_time, expiry_to_uuid), the panic the process died    *)
(* with (if any), and a record of the last call: the command, the locals   *)
(* `flushed` and `order` of Engine::call / Engine::place, and the          *)
(* MatchResult returned.  One action per command kind; each action is the  *)
(* whole of Engine::call on that command.                                  *)
(*                                                                         *)
(* Scaling: times are in abstract ticks instead of nanoseconds, so         *)
(* MAX_LIFETIME (90 days) is a handful of ticks; uuids are small naturals, *)
(* Decimals are small integers and Decimal::MAX is a value above every     *)
(* price a command can carry.  u64 is scaled to the naturals below         *)
(* U64Modulus; overflow_checks is the build's setting of that name: with   *)
(* it (debug profile) an overflowing u64 addition panics, without it       *)
(* (release profile) the sum wraps around.                                 *)
(***************************************************************************)
EXTENDS Integers, Sequences, FiniteSets, TLC

VARIABLES buy, sell, last_tick, uuid_to_side_price_time, expiry_to_uuid,
          panic, command, flushed, order, result, used, overflow_checks

engine == <<buy, sell, last_tick, uuid_to_side_price_time, expiry_to_uuid>>
vars == <<buy, sell, last_tick, uuid_to_side_price_time, expiry_to_uuid,
          panic, command, flushed, order, result, used, overflow_checks>>

(***************************************************************************)
(* Bounds of the model.                                                    *)
(***************************************************************************)
MaxId == 3
MaxAmount == 2
MaxPrice == 2
MaxLifetime == 3
MaxTime == 4
MaxDupTime == 2

(***************************************************************************)
(* Program constants (scaled).                                             *)
(***************************************************************************)
MAX_LIFETIME == 4
DecimalZERO == 0
DecimalMAX == MaxPrice + 1
U64Modulus == 16

Uuids == 1..MaxId
Amounts == 1..MaxAmount
Prices == 1..MaxPrice
Lifetimes == 1..MaxLifetime
Times == 0..MaxTime
\* GTD lifetimes near the top of u64: the parser accepts every u64 >= 1.
LongLifetimes == (U64Modulus - MaxLifetime)..(U64Modulus - 1)

Buy == "Buy"
Sell == "Sell"
Side == {Buy, Sell}

other_side(side) == IF side = Buy THEN Sell ELSE Buy

GTC == [kind |-> "GTC", lifetime |-> 0]
IOC == [kind |-> "IOC", lifetime |-> 0]
GTD(lifetime) == [kind |-> "GTD", lifetime |-> lifetime]
TimeInForce == {GTC, IOC} \cup {GTD(l) : l \in Lifetimes}

(***************************************************************************)
(* Panics: the process dies with one of these and handles no more input.   *)
(***************************************************************************)
NoPanic == "none"
NonMonotonicTime == "current_tick must be greater than last_tick"
DuplicateId == "Duplicate UUID"
DataStructureMismatch == "Data structure mismatch"
ExpiryMissing == "ts missing in expiry_to_uuid"
ArithmeticOverflow == "attempt to add with overflow"

(***************************************************************************)
(* Maps (BTreeMap / HashMap) as functions on their key set.                *)
(***************************************************************************)
EmptyMap == [k \in {} |-> 0]
MapInsert(m, k, v) == [x \in DOMAIN m \cup {k} |-> IF x = k THEN v ELSE m[x]]
MapRemove(m, k) == [x \in DOMAIN m \ {k} |-> m[x]]

\* Ord for PriceTime(Decimal, u64): lexicographic.
PriceTimeLess(a, b) == a[1] < b[1] \/ (a[1] = b[1] /\ a[2] < b[2])

RECURSIVE SortedKeys(_)
\* The keys of a book side in BTreeMap iteration order.
SortedKeys(keys) ==
    IF keys = {} THEN <<>>
    ELSE LET first == CHOOSE k \in keys : \A j \in keys : j = k \/ PriceTimeLess(k, j)
         IN <<first>> \o SortedKeys(keys \ {first})

RECURSIVE SortedNats(_)
\* A set of u64 keys (or uuids) in ascending order.
SortedNats(s) ==
    IF s = {} THEN <<>>
    ELSE LET first == CHOOSE k \in s : \A j \in s : k <= j
         IN <<first>> \o SortedNats(s \ {first})

(***************************************************************************)
(* Commands.                                                               *)
(***************************************************************************)
LimitOrder(now, uuid, side, amount, price, tif) ==
    [now |-> now, kind |-> "limit", uuid |-> uuid, side |-> side,
     amount |-> amount, price |-> price, tif |-> tif]
MarketOrder(now, uuid, side, amount) ==
    [now |-> now, kind |-> "market", uuid |-> uuid, side |-> side, amount |-> amount]
CancelCommand(now, uuid) == [now |-> now, kind |-> "cancel", uuid |-> uuid]
FlushCommand(now) == [now |-> now, kind |-> "flush"]
NoCommand == [now |-> 0, kind |-> "none"]
\* A command the clock check refused: call panics before it looks at anything
\* but the timestamp, which is all the panic message reports.
Rejected(now) == [now |-> now, kind |-> "rejected"]

IsPlace(c) == c.kind \in {"limit", "market"}

(***************************************************************************)
(* Order.                                                                  *)
(***************************************************************************)
NoOrder == [uuid |-> 0]

\* Order::create
OrderCreate(place, now) ==
    IF place.kind = "market"
    THEN [uuid |-> place.uuid, created |-> now, side |-> place.side,
          amount |-> place.amount, tif |-> IOC,
          price |-> IF place.side = Buy THEN DecimalMAX ELSE DecimalZERO,
          remaining_amount |-> place.amount]
    ELSE [uuid |-> place.uuid, created |-> now, side |-> place.side,
          amount |-> place.amount, tif |-> place.tif,
          price |-> place.price,
          remaining_amount |-> place.amount]

\* u64 `+` without overflow checks: the sum modulo 2^64.
WrappingAdd(a, b) == (a + b) % U64Modulus

\* u64 `+` overflows.
AddOverflows(a, b) == a + b >= U64Modulus

\* Order::expiry, as the release profile computes it.
OrderExpiry(o) ==
    CASE o.tif.kind = "IOC" -> o.created
      [] o.tif.kind = "GTC" -> WrappingAdd(o.created, MAX_LIFETIME)
      [] o.tif.kind = "GTD" -> WrappingAdd(o.created, o.tif.lifetime)

\* Order::expiry overflows: a panic under overflow checks.
ExpiryOverflows(o) ==
    CASE o.tif.kind = "IOC" -> FALSE
      [] o.tif.kind = "GTC" -> AddOverflows(o.created, MAX_LIFETIME)
      [] o.tif.kind = "GTD" -> AddOverflows(o.created, o.tif.lifetime)

(***************************************************************************)
(* Matching.                                                               *)
(***************************************************************************)
\* Mutant: equal prices do not cross.
crossedStrict(taker, maker) ==
    IF taker.remaining_amount = 0 THEN FALSE
    ELSE IF taker.side = Buy THEN taker.price > maker.price
         ELSE taker.price < maker.price

\* fn crossed
crossed(taker, maker) ==
    IF taker.remaining_amount = 0 THEN FALSE
    ELSE IF taker.side = Buy THEN taker.price >= maker.price
         ELSE taker.price <= maker.price

\* cmp::min on Decimal
DecimalMin(a, b) == IF a <= b THEN a ELSE b

\* Mutant: the fill takes the whole of the taker's remaining amount.
MakeFillTakerAmount(taker, maker) ==
    [base_amount |-> taker.remaining_amount,
     price |-> maker.price,
     maker_uuid |-> maker.uuid,
     taker_uuid |-> taker.uuid]

\* Mutant: the fill is priced at the taker's price.
MakeFillTakerPrice(taker, maker) ==
    [base_amount |-> DecimalMin(taker.remaining_amount, maker.remaining_amount),
     price |-> taker.price,
     maker_uuid |-> maker.uuid,
     taker_uuid |-> taker.uuid]

\* The Fill built in the loop body of Engine::_match.
MakeFill(taker, maker) ==
    [base_amount |-> DecimalMin(taker.remaining_amount, maker.remaining_amount),
     price |-> maker.price,
     maker_uuid |-> maker.uuid,
     taker_uuid |-> taker.uuid]

\* Mutant: the taker is closed only when strictly smaller than the maker.
ClosedByFillStrict(taker, maker) ==
    (IF taker.remaining_amount < maker.remaining_amount THEN {taker.uuid} ELSE {})
    \cup (IF taker.remaining_amount >= maker.remaining_amount THEN {maker.uuid} ELSE {})

\* Mutant: the maker is closed only when strictly smaller than the taker.
ClosedByFillMakerStrict(taker, maker) ==
    (IF taker.remaining_amount <= maker.remaining_amount THEN {taker.uuid} ELSE {})
    \cup (IF taker.remaining_amount > maker.remaining_amount THEN {maker.uuid} ELSE {})

\* The two `result.closed.insert` statements at the top of the loop body.
ClosedByFill(taker, maker) ==
    (IF taker.remaining_amount <= maker.remaining_amount THEN {taker.uuid} ELSE {})
    \cup (IF taker.remaining_amount >= maker.remaining_amount THEN {maker.uuid} ELSE {})

\* Mutant: the post-loop IOC step is missing.
ClosedByTifNone(taker) == {}

\* The post-loop step of Engine::_match: an IOC taker is always closed.
ClosedByTif(taker) == IF taker.tif.kind = "IOC" THEN {taker.uuid} ELSE {}

EmptyResult == [fills |-> <<>>, closed |-> {}]

RECURSIVE MatchLoop(_, _, _, _)
\* The `for (_, maker) in resting.iter_mut()` loop of Engine::_match: keys is
\* what is left of the iteration, resting the book side being mutated.
MatchLoop(taker, resting, keys, res) ==
    IF keys = <<>> THEN [taker |-> taker, resting |-> resting, result |-> res]
    ELSE LET key == Head(keys)
             maker == resting[key]
         IN IF ~crossed(taker, maker)
            THEN [taker |-> taker, resting |-> resting, result |-> res]
            ELSE LET fill == MakeFill(taker, maker)
                     taker2 == [taker EXCEPT !.remaining_amount = @ - fill.base_amount]
                     maker2 == [maker EXCEPT !.remaining_amount = @ - fill.base_amount]
                 IN MatchLoop(taker2,
                              [resting EXCEPT ![key] = maker2],
                              Tail(keys),
                              [fills |-> Append(res.fills, fill),
                               closed |-> res.closed \cup ClosedByFill(taker, maker)])

\* Engine::resting
Resting(e, side) == IF side = Buy THEN e.buy ELSE e.sell

SetResting(e, side, book) ==
    IF side = Buy THEN [e EXCEPT !.buy = book] ELSE [e EXCEPT !.sell = book]

\* Engine::_match: returns the engine (makers decremented in place), the
\* taker after matching and the MatchResult.
Match(e, taker) ==
    LET side == other_side(taker.side)
        book == Resting(e, side)
        m == MatchLoop(taker, book, SortedKeys(DOMAIN book), EmptyResult)
    IN [e |-> SetResting(e, side, m.resting),
        taker |-> m.taker,
        result |-> [fills |-> m.result.fills,
                    closed |-> m.result.closed \cup ClosedByTif(m.taker)]]

(***************************************************************************)
(* Book maintenance.                                                       *)
(***************************************************************************)
\* Mutant: the buy side is keyed by price, not by -price.
BookKeyNoNegate(side, price, time) == <<price, time>>

\* The book key of an order: PriceTime(-price, created) for Buy,
\* PriceTime(price, created) for Sell.
BookKey(side, price, time) ==
    IF side = Buy THEN <<-price, time>> ELSE <<price, time>>

\* Engine::insert
Insert(e, o) ==
    LET e1 == [e EXCEPT !.uuid_to_side_price_time =
                   MapInsert(@, o.uuid, <<o.side, o.price, o.created>>)]
    IN IF o.uuid \in DOMAIN e.uuid_to_side_price_time
       THEN [e1 EXCEPT !.panic = DuplicateId]
       ELSE IF e.overflow_checks /\ ExpiryOverflows(o)
       THEN [e1 EXCEPT !.panic = ArithmeticOverflow]
       ELSE LET e2 == [e1 EXCEPT !.expiry_to_uuid = MapInsert(@, OrderExpiry(o), o.uuid)]
            IN SetResting(e2, o.side,
                          MapInsert(Resting(e2, o.side), BookKey(o.side, o.price, o.created), o))

\* Mutant: remove leaves the entry of the expiry index in place.
RemoveKeepExpiry(e, uuid) ==
    IF e.panic # NoPanic THEN [e |-> e, found |-> FALSE]
    ELSE IF uuid \notin DOMAIN e.uuid_to_side_price_time THEN [e |-> e, found |-> FALSE]
    ELSE LET spt == e.uuid_to_side_price_time[uuid]
             side == spt[1]
             key == BookKey(side, spt[2], spt[3])
             e1 == [e EXCEPT !.uuid_to_side_price_time = MapRemove(@, uuid)]
             book == Resting(e1, side)
         IN IF key \notin DOMAIN book
            THEN [e |-> [e1 EXCEPT !.panic = DataStructureMismatch], found |-> FALSE]
            ELSE [e |-> SetResting(e1, side, MapRemove(book, key)), found |-> TRUE]

\* Engine::remove: returns the engine and the bool.
Remove(e, uuid) ==
    IF e.panic # NoPanic THEN [e |-> e, found |-> FALSE]
    ELSE IF uuid \notin DOMAIN e.uuid_to_side_price_time THEN [e |-> e, found |-> FALSE]
    ELSE LET spt == e.uuid_to_side_price_time[uuid]
             side == spt[1]
             key == BookKey(side, spt[2], spt[3])
             e1 == [e EXCEPT !.uuid_to_side_price_time = MapRemove(@, uuid)]
             book == Resting(e1, side)
         IN IF key \notin DOMAIN book
            THEN [e |-> [e1 EXCEPT !.panic = DataStructureMismatch], found |-> FALSE]
            ELSE LET o == book[key]
                     e2 == SetResting(e1, side, MapRemove(book, key))
                     expiry == OrderExpiry(o)
                 IN IF expiry \notin DOMAIN e2.expiry_to_uuid
                    THEN [e |-> [e2 EXCEPT !.panic = ExpiryMissing], found |-> FALSE]
                    ELSE [e |-> [e2 EXCEPT !.expiry_to_uuid = MapRemove(@, expiry)],
                          found |-> TRUE]

RECURSIVE RemoveEach(_, _)
\* `for uuid in &set { self.remove(*uuid); }` over a BTreeSet, in its order;
\* a panic ends the loop.
RemoveEach(e, uuids) ==
    IF uuids = <<>> \/ e.panic # NoPanic THEN e
    ELSE RemoveEach(Remove(e, Head(uuids)).e, Tail(uuids))

RECURSIVE FlushScan(_, _, _)
\* The first loop of Engine::flush: in-order scan of expiry_to_uuid,
\* stopping at the first expiry greater than now.
FlushScan(index, keys, now) ==
    IF keys = <<>> THEN {}
    ELSE IF Head(keys) <= now
         THEN {index[Head(keys)]} \cup FlushScan(index, Tail(keys), now)
         ELSE {}

\* Engine::flush: returns the engine and the expired set.
Flush(e, now) ==
    LET expired == FlushScan(e.expiry_to_uuid, SortedNats(DOMAIN e.expiry_to_uuid), now)
    IN [e |-> RemoveEach(e, SortedNats(expired)), expired |-> expired]

\* Engine::place: returns the engine, the local `order` after matching and
\* the MatchResult.
Place(e, place, now) ==
    LET m == Match(e, OrderCreate(place, now))
        e1 == RemoveEach(m.e, SortedNats(m.result.closed))
        e2 == IF e1.panic # NoPanic THEN e1
              ELSE IF m.taker.uuid \notin m.result.closed THEN Insert(e1, m.taker)
              ELSE e1
    IN [e |-> e2, order |-> m.taker, result |-> m.result]

\* Mutant: cancel reports the id whether or not an order was removed.
CancelAlways(e, uuid) ==
    LET r == Remove(e, uuid)
    IN [e |-> r.e, closed |-> {uuid}]

\* Engine::cancel: returns the engine and the set.
Cancel(e, uuid) ==
    LET r == Remove(e, uuid)
    IN [e |-> r.e, closed |-> IF r.found THEN {uuid} ELSE {}]

\* fn merge
merge(r1, closed) == [fills |-> r1.fills, closed |-> r1.closed \cup closed]

\* Mutant: the clock check lets now = last_tick through.
ClockRejectsStrict(now, last) == now < last

\* The clock check at the head of Engine::call.
ClockRejects(now, last) == now <= last

\* Engine::call: returns the engine, the locals flushed and order, and the
\* MatchResult (meaningful only when the engine did not panic).
Call(e, c) ==
    IF ClockRejects(c.now, e.last_tick)
    THEN [e |-> [e EXCEPT !.panic = NonMonotonicTime],
          flushed |-> {}, order |-> NoOrder, result |-> EmptyResult]
    ELSE LET e0 == [e EXCEPT !.last_tick = c.now]
         IN CASE IsPlace(c) ->
                   LET f == Flush(e0, c.now)
                       p == IF f.e.panic # NoPanic
                            THEN [e |-> f.e, order |-> NoOrder, result |-> EmptyResult]
                            ELSE Place(f.e, c, c.now)
                   IN [e |-> p.e, flushed |-> f.expired, order |-> p.order,
                       result |-> merge(p.result, f.expired)]
              [] c.kind = "cancel" ->
                   LET f == Flush(e0, c.now)
                       k == Cancel(f.e, c.uuid)
                   IN [e |-> k.e, flushed |-> f.expired, order |-> NoOrder,
                       result |-> merge([fills |-> <<>>, closed |-> k.closed], f.expired)]
              [] c.kind = "flush" ->
                   LET f == Flush(e0, c.now)
                   IN [e |-> f.e, flushed |-> f.expired, order |-> NoOrder,
                       result |-> [fills |-> <<>>, closed |-> f.expired]]

(***************************************************************************)
(* The state machine.                                                      *)
(***************************************************************************)
\* Engine::new, before any input line.
InitEngine ==
    /\ buy = EmptyMap
    /\ sell = EmptyMap
    /\ last_tick = 0
    /\ uuid_to_side_price_time = EmptyMap
    /\ expiry_to_uuid = EmptyMap
    /\ panic = NoPanic
    /\ command = NoCommand
    /\ flushed = {}
    /\ order = NoOrder
    /\ result = EmptyResult
    /\ used = {}

\* The commands of Spec and SpecDup carry lifetimes that cannot overflow, so
\* both profiles behave alike there: the release profile stands for them.
Init == InitEngine /\ overflow_checks = FALSE

\* Either profile.
InitOverflow == InitEngine /\ overflow_checks \in BOOLEAN

Engine ==
    [buy |-> buy, sell |-> sell, last_tick |-> last_tick,
     uuid_to_side_price_time |-> uuid_to_side_price_time,
     expiry_to_uuid |-> expiry_to_uuid, panic |-> panic,
     overflow_checks |-> overflow_checks]

\* One iteration of the loop of main: engine.call on the parsed command.  A
\* process that panicked reads no more lines.
Step(c) ==
    /\ panic = NoPanic
    /\ \E r \in {Call(Engine, c)} :
          /\ buy' = r.e.buy
          /\ sell' = r.e.sell
          /\ last_tick' = r.e.last_tick
          /\ uuid_to_side_price_time' = r.e.uuid_to_side_price_time
          /\ expiry_to_uuid' = r.e.expiry_to_uuid
          /\ panic' = r.e.panic
          /\ command' = IF r.e.panic = NonMonotonicTime THEN Rejected(c.now) ELSE c
          /\ flushed' = r.flushed
          /\ order' = r.order
          /\ result' = IF r.e.panic = NoPanic THEN r.result ELSE EmptyResult
    /\ used' = IF IsPlace(c) /\ ~ClockRejects(c.now, last_tick) THEN used \cup {c.uuid} ELSE used
    /\ UNCHANGED overflow_checks

\* Order ids are unique over a valid stream: a Place carries an id no
\* earlier Place carried.
FreshUuids == Uuids \ used

\* The ids of the orders that are live now: a Place that carries one of them
\* is a duplicate.
LiveUuids == DOMAIN uuid_to_side_price_time

\* The four command kinds, at a timestamp the clock check lets through.
PlaceLimit ==
    \E now \in Times :
        /\ ~ClockRejects(now, last_tick)
        /\ \E uuid \in FreshUuids, side \in Side, amount \in Amounts,
              price \in Prices, tif \in TimeInForce :
               Step(LimitOrder(now, uuid, side, amount, price, tif))

PlaceMarket ==
    \E now \in Times :
        /\ ~ClockRejects(now, last_tick)
        /\ \E uuid \in FreshUuids, side \in Side, amount \in Amounts :
               Step(MarketOrder(now, uuid, side, amount))

CancelOrder ==
    \E now \in Times :
        /\ ~ClockRejects(now, last_tick)
        /\ \E uuid \in Uuids : Step(CancelCommand(now, uuid))

FlushDue ==
    \E now \in Times :
        /\ ~ClockRejects(now, last_tick)
        /\ Step(FlushCommand(now))

\* A command of any kind at a timestamp the clock check refuses: call panics
\* before it looks at the command, so one kind stands for all of them.
StaleCommand ==
    \E now \in Times :
        /\ ClockRejects(now, last_tick)
        /\ Step(FlushCommand(now))

\* A Place that carries the id of a live order (an invalid stream).
PlaceDuplicate ==
    \E now \in 0..MaxDupTime :
        /\ ~ClockRejects(now, last_tick)
        /\ \E uuid \in LiveUuids, side \in Side, amount \in Amounts :
               \/ \E price \in Prices, tif \in TimeInForce :
                      Step(LimitOrder(now, uuid, side, amount, price, tif))
               \/ Step(MarketOrder(now, uuid, side, amount))

\* Valid streams, and the calls the clock check refuses.
Next == PlaceLimit \/ PlaceMarket \/ CancelOrder \/ FlushDue \/ StaleCommand

Spec == Init /\ [][Next]_vars

\* Streams that may also place duplicates of live ids.
NextDup == Next \/ PlaceDuplicate

SpecDup == Init /\ [][NextDup]_vars

\* A GTD limit order with a fresh id and a lifetime near the top of u64.
PlaceLongLived ==
    \E now \in Times :
        /\ ~ClockRejects(now, last_tick)
        /\ \E uuid \in FreshUuids, side \in Side, amount \in Amounts,
              price \in Prices, lifetime \in LongLifetimes :
               Step(LimitOrder(now, uuid, side, amount, price, GTD(lifetime)))

\* Valid streams of long-lived orders, market orders, cancels and flushes,
\* under either profile.
NextOverflow ==
    PlaceLongLived \/ PlaceMarket \/ CancelOrder \/ FlushDue \/ StaleCommand

SpecOverflow == InitOverflow /\ [][NextOverflow]_vars

(***************************************************************************)
(* Vocabulary of the properties.                                           *)
(***************************************************************************)
Range(m) == {m[k] : k \in DOMAIN m}

BookOrders(b, s) == Range(b) \cup Range(s)

\* The ids of the orders held in buy and sell.
RestingIds(b, s) == {o.uuid : o \in BookOrders(b, s)}

\* The expiry of a resting order as the data model defines it.
Lifetime(o) == IF o.tif.kind = "GTC" THEN MAX_LIFETIME ELSE o.tif.lifetime
ExpiryOf(o) == o.created + Lifetime(o)

\* The last call returned a MatchResult.
Returned == panic = NoPanic /\ command.kind # "none"

\* C1: after every command of a valid stream the keys of the id index are
\* the ids of the orders held in buy and sell, and the expiry index holds
\* exactly those ids, each once.
Bijection ==
    Returned =>
        /\ DOMAIN uuid_to_side_price_time = RestingIds(buy, sell)
        /\ Range(expiry_to_uuid) = RestingIds(buy, sell)
        /\ Cardinality(DOMAIN expiry_to_uuid) = Cardinality(RestingIds(buy, sell))

\* C2: after a Flush at time now no resting order has expiry <= now.
ExpiryMonotonicity ==
    (Returned /\ command.kind = "flush") =>
        \A o \in BookOrders(buy, sell) : ExpiryOf(o) > command.now

\* The order that carries id in the book sides b and s.
RestingOrder(b, s, id) == CHOOSE o \in BookOrders(b, s) : o.uuid = id

\* C3: a Place whose id is live (and not flushed by this very command) ends
\* in the DuplicateId panic, whatever its time-in-force and fills, and the
\* resting order that carries the id stays in the book.
DuplicateIdIsFatal ==
    [][(/\ IsPlace(command')
        /\ command'.uuid \in LiveUuids
        /\ command'.uuid \in RestingIds(buy, sell)
        /\ command'.uuid \notin flushed')
       => /\ panic' = DuplicateId
          /\ RestingOrder(buy, sell, command'.uuid) \in BookOrders(buy', sell')]_vars

(***************************************************************************)
(* Vocabulary of the matching properties.  In a step that is a Place, the  *)
(* makers are the orders of the opposite side in the state before the      *)
(* step, less those the step's flush removed.                              *)
(***************************************************************************)
\* The step is a Place that returned a MatchResult.
PlaceReturned == IsPlace(command') /\ panic' = NoPanic

Makers ==
    {o \in Range(IF other_side(command'.side) = Buy THEN buy ELSE sell) :
        o.uuid \notin flushed'}

MakerOf(fill) == CHOOSE o \in Makers : o.uuid = fill.maker_uuid

\* Priority as the data model states it: ascending effective price, then
\* ascending created.
EffectivePrice(o) == IF o.side = Sell THEN o.price ELSE 0 - o.price
Before(a, b) ==
    \/ EffectivePrice(a) < EffectivePrice(b)
    \/ EffectivePrice(a) = EffectivePrice(b) /\ a.created < b.created

\* The taker's limit crosses the maker's price.
Crosses(taker, maker) ==
    IF taker.side = Buy THEN taker.price >= maker.price ELSE taker.price <= maker.price

RECURSIVE SumBase(_)
SumBase(fills) ==
    IF fills = <<>> THEN 0 ELSE Head(fills).base_amount + SumBase(Tail(fills))

RECURSIVE SumRemaining(_)
SumRemaining(orders) ==
    IF orders = {} THEN 0
    ELSE LET o == CHOOSE x \in orders : TRUE
         IN o.remaining_amount + SumRemaining(orders \ {o})

\* C4: the fills of a Place go to opposite-side makers in ascending
\* (effective price, created) order; the filled makers are a prefix of the
\* opposite side in that order, every filled maker but the last is
\* exhausted, and no maker at or behind a non-crossing maker is filled.
PriceTimePriority ==
    [][PlaceReturned =>
        LET fills == result'.fills
        IN /\ \A i \in DOMAIN fills : \E o \in Makers : o.uuid = fills[i].maker_uuid
           /\ \A i, j \in DOMAIN fills :
                 i < j => Before(MakerOf(fills[i]), MakerOf(fills[j]))
           /\ \A i \in DOMAIN fills : \A o \in Makers :
                 Before(o, MakerOf(fills[i])) =>
                    \E j \in 1..(i - 1) :
                       /\ fills[j].maker_uuid = o.uuid
                       /\ fills[j].base_amount = o.remaining_amount
           /\ \A i \in DOMAIN fills : \A o \in Makers :
                 ~Crosses(order', o) =>
                    /\ o.uuid # fills[i].maker_uuid
                    /\ ~Before(o, MakerOf(fills[i]))]_vars

\* A Place filled two makers at different prices, best first.
PriorityWitness ==
    /\ Returned /\ IsPlace(command)
    /\ Len(result.fills) = 2
    /\ result.fills[1].price # result.fills[2].price
    /\ \E o \in BookOrders(buy, sell) : o.uuid = result.fills[2].maker_uuid

\* C5: for every id that was live before the command or is the id placed,
\* the id is in closed iff it is afterwards absent from the id index and
\* from both book sides; flushed and cancelled orders are in closed, and so
\* is every maker or taker whose remaining reached 0 in matching.
ClosureConsistency ==
    [][panic' = NoPanic =>
        LET before == LiveUuids \cup RestingIds(buy, sell)
            ids == IF IsPlace(command') THEN before \cup {command'.uuid} ELSE before
        IN /\ \A id \in ids :
                 id \in result'.closed <=>
                    /\ id \notin DOMAIN uuid_to_side_price_time'
                    /\ id \notin RestingIds(buy', sell')
           /\ flushed' \subseteq result'.closed
           /\ (command'.kind = "cancel" /\ command'.uuid \in before)
                 => command'.uuid \in result'.closed
           /\ IsPlace(command') =>
                 /\ order'.remaining_amount = 0 => order'.uuid \in result'.closed
                 /\ \A i \in DOMAIN result'.fills :
                       result'.fills[i].base_amount
                           = MakerOf(result'.fills[i]).remaining_amount
                       => result'.fills[i].maker_uuid \in result'.closed]_vars

\* A resting (non-IOC) taker and a maker of equal remaining closed each
\* other with a single fill.
ClosureWitness ==
    /\ Returned /\ command.kind = "limit" /\ command.tif.kind # "IOC"
    /\ Len(result.fills) = 1
    /\ result.fills[1].base_amount = command.amount
    /\ result.closed = {command.uuid, result.fills[1].maker_uuid}
    /\ RestingIds(buy, sell) \cap result.closed = {}

\* The command placed a market order or an IOC limit order.
PlacedIOC ==
    \/ command.kind = "market"
    \/ command.kind = "limit" /\ command.tif.kind = "IOC"

\* C6: after a Place of an IOC limit order or of a market order the id is
\* in closed and in none of buy, sell, the id index and the expiry index.
IOCNeverRests ==
    (Returned /\ PlacedIOC) =>
        /\ command.uuid \in result.closed
        /\ command.uuid \notin RestingIds(buy, sell)
        /\ command.uuid \notin DOMAIN uuid_to_side_price_time
        /\ command.uuid \notin Range(expiry_to_uuid)

\* An IOC limit order was partially filled and its remainder did not rest.
IOCWitness ==
    /\ Returned /\ command.kind = "limit" /\ command.tif.kind = "IOC"
    /\ Len(result.fills) >= 1
    /\ order.remaining_amount > 0
    /\ command.uuid \in result.closed
    /\ command.uuid \notin RestingIds(buy, sell)

\* C7: the base amounts of the fills of a Place sum to at most
\* min(taker.amount, total remaining of the crossed makers); the taker's
\* remaining drops by exactly that sum, each filled maker's remaining by
\* exactly its fill, and no maker is filled twice.
ConservationOfBase ==
    [][PlaceReturned =>
        LET fills == result'.fills
            total == SumBase(fills)
            crossedMakers == {o \in Makers : Crosses(order', o)}
            after == BookOrders(buy', sell')
        IN /\ total <= command'.amount
           /\ total <= SumRemaining(crossedMakers)
           /\ order'.remaining_amount = command'.amount - total
           /\ \A i, j \in DOMAIN fills :
                 fills[i].maker_uuid = fills[j].maker_uuid => i = j
           /\ \A i \in DOMAIN fills :
                 LET m == MakerOf(fills[i])
                     left == m.remaining_amount - fills[i].base_amount
                 IN /\ fills[i].base_amount > 0
                    /\ IF \E o \in after : o.uuid = m.uuid
                       THEN [m EXCEPT !.remaining_amount = left] \in after
                       ELSE left = 0
           /\ \A o \in Makers :
                 (\A i \in DOMAIN fills : fills[i].maker_uuid # o.uuid) => o \in after]_vars

\* A Place exhausted one maker and left the next one partially filled.
ConservationWitness ==
    /\ Returned /\ IsPlace(command)
    /\ Len(result.fills) = 2
    /\ order.remaining_amount = 0
    /\ \E o \in BookOrders(buy, sell) :
          /\ o.uuid = result.fills[2].maker_uuid
          /\ o.remaining_amount = o.amount - result.fills[2].base_amount
          /\ o.remaining_amount > 0

\* C8: a command whose now is <= last_tick ends in the NonMonotonicTime
\* panic with buy, sell, the indices and last_tick unchanged; any other
\* command sets last_tick to its now, which is greater than before.
ClockMonotonicity ==
    [][/\ command'.now <= last_tick =>
             /\ panic' = NonMonotonicTime
             /\ UNCHANGED engine
       /\ command'.now > last_tick =>
             /\ panic' # NonMonotonicTime
             /\ last_tick' = command'.now
             /\ last_tick' > last_tick]_vars

\* A command was refused by the clock check while orders were resting.
ClockWitness ==
    /\ panic = NonMonotonicTime
    /\ command.now <= last_tick
    /\ last_tick > 0
    /\ RestingIds(buy, sell) # {}

\* The state of the book and its indices, last_tick apart.
book == <<buy, sell, uuid_to_side_price_time, expiry_to_uuid>>

\* C9: Cancel(id) of an order that rests and is not due at now returns
\* closed = {id} with the flushed ids, no fills, and takes the order out of
\* its side and both indices; Cancel of an id that is not live returns
\* closed = flushed and no fills, and with nothing flushed leaves the book
\* as it was.
CancelSemantics ==
    [][command'.kind = "cancel" =>
        LET id == command'.uuid
            now == command'.now
        IN /\ (\E o \in BookOrders(buy, sell) : o.uuid = id /\ ExpiryOf(o) > now) =>
                 /\ panic' = NoPanic
                 /\ result' = [fills |-> <<>>, closed |-> {id} \cup flushed']
                 /\ id \notin RestingIds(buy', sell')
                 /\ id \notin DOMAIN uuid_to_side_price_time'
                 /\ id \notin Range(expiry_to_uuid')
           /\ (id \notin LiveUuids /\ id \notin RestingIds(buy, sell)) =>
                 /\ panic' = NoPanic
                 /\ result' = [fills |-> <<>>, closed |-> flushed']
                 /\ flushed' = {} => UNCHANGED book]_vars

\* C10: every fill of a Place carries the price and id of the resting maker
\* it was made against and the id of the placed order; a buy taker never
\* pays more than its price and a sell taker never gets less.
MakerPriceFills ==
    [][PlaceReturned =>
        \A i \in DOMAIN result'.fills :
            LET f == result'.fills[i]
            IN /\ \E o \in Makers : o.uuid = f.maker_uuid /\ o.price = f.price
               /\ f.taker_uuid = command'.uuid
               /\ f.price \in Prices
               /\ command'.kind = "limit" =>
                     IF command'.side = Buy THEN f.price <= command'.price
                     ELSE f.price >= command'.price]_vars

\* A limit order was filled at a maker's price better than its own limit.
MakerPriceWitness ==
    /\ Returned /\ command.kind = "limit"
    /\ \E i \in DOMAIN result.fills : result.fills[i].price # command.price

\* The opposite-side orders that rest before the step and are not due at
\* the time of the command of the step.
LiveMakers ==
    {o \in Range(IF other_side(command'.side) = Buy THEN buy ELSE sell) :
        ExpiryOf(o) > command'.now}

\* C11: a market order of amount a fills exactly min(a, total remaining of
\* the opposite-side orders that rest and are not due at now), best first,
\* and afterwards is in closed and rests nowhere.
MarketOrderFills ==
    [][(command'.kind = "market" /\ panic' = NoPanic) =>
        LET fills == result'.fills
            liquidity == SumRemaining(LiveMakers)
        IN /\ SumBase(fills) = (IF command'.amount <= liquidity
                                THEN command'.amount ELSE liquidity)
           /\ \A i \in DOMAIN fills :
                 \E o \in LiveMakers : o.uuid = fills[i].maker_uuid
           /\ \A i, j \in DOMAIN fills :
                 i < j => Before(MakerOf(fills[i]), MakerOf(fills[j]))
           /\ command'.uuid \in result'.closed
           /\ command'.uuid \notin RestingIds(buy', sell')]_vars

\* The orders that rest before the step and are due at the time of the
\* command of the step.
DueOrders == {o \in BookOrders(buy, sell) : ExpiryOf(o) <= command'.now}

\* C12: a Place or a Cancel at time now first removes every resting order
\* with expiry <= now and reports it in closed, so that no fill has a maker
\* with expiry <= now.
FlushBeforeWrite ==
    [][((IsPlace(command') \/ command'.kind = "cancel") /\ panic' = NoPanic) =>
          /\ \A o \in DueOrders :
                /\ o.uuid \in flushed'
                /\ o.uuid \in result'.closed
                /\ o.uuid \notin RestingIds(buy', sell')
          /\ \A i \in DOMAIN result'.fills :
                \A o \in DueOrders : o.uuid # result'.fills[i].maker_uuid]_vars

\* C13: no command of a valid stream reaches the 'Data structure mismatch'
\* panic or the 'ts missing in expiry_to_uuid' assertion of remove.
NoInternalInconsistency ==
    panic \notin {DataStructureMismatch, ExpiryMissing}

\* C14: after a Place of a GTC or GTD limit order with a fresh id that
\* returned, an order that matching did not fill completely rests on its
\* own side at key (effective price, now) with remaining = amount minus the
\* sum of its fills, is not in closed, has the id-index entry
\* (side, price, now) and an expiry-index entry at created + lifetime; an
\* order that was filled completely is in closed and does not rest.
RestingInsertion ==
    [][(PlaceReturned /\ command'.kind = "limit" /\ command'.tif.kind # "IOC"
            /\ command'.uuid \notin used) =>
         LET c == command'
             filled == SumBase(result'.fills)
             key == <<EffectivePrice(c), c.now>>
             side == IF c.side = Buy THEN buy' ELSE sell'
             lifetime == IF c.tif.kind = "GTC" THEN MAX_LIFETIME ELSE c.tif.lifetime
         IN IF filled < c.amount
            THEN /\ key \in DOMAIN side
                 /\ side[key] = [uuid |-> c.uuid, side |-> c.side, price |-> c.price,
                                 amount |-> c.amount, tif |-> c.tif, created |-> c.now,
                                 remaining_amount |-> c.amount - filled]
                 /\ Cardinality({o \in BookOrders(buy', sell') : o.uuid = c.uuid}) = 1
                 /\ c.uuid \notin result'.closed
                 /\ c.uuid \in DOMAIN uuid_to_side_price_time'
                 /\ uuid_to_side_price_time'[c.uuid] = <<c.side, c.price, c.now>>
                 /\ c.now + lifetime \in DOMAIN expiry_to_uuid'
                 /\ expiry_to_uuid'[c.now + lifetime] = c.uuid
            ELSE /\ c.uuid \in result'.closed
                 /\ c.uuid \notin RestingIds(buy', sell')
                 /\ c.uuid \notin DOMAIN uuid_to_side_price_time']_vars

\* C15: every resting order has 0 <= remaining <= amount; from one state
\* to the next the remaining of an order does not increase and none of its
\* other fields changes; an order that rests after a command that returned
\* has remaining > 0.
RemainingBounds ==
    [][/\ \A o \in BookOrders(buy', sell') :
             /\ 0 <= o.remaining_amount
             /\ o.remaining_amount <= o.amount
             /\ panic' = NoPanic => o.remaining_amount > 0
       /\ \A o \in BookOrders(buy, sell) :
             o.uuid \in RestingIds(buy', sell') =>
                LET n == RestingOrder(buy', sell', o.uuid)
                IN /\ n.remaining_amount <= o.remaining_amount
                   /\ [n EXCEPT !.remaining_amount = o.remaining_amount] = o
                   /\ (n \in Range(buy')) = (o \in Range(buy))]_vars

\* A resting order was partially filled and still rests with less than its
\* amount.
RemainingWitness ==
    /\ Returned
    /\ \E o \in BookOrders(buy, sell) :
          /\ 0 < o.remaining_amount
          /\ o.remaining_amount < o.amount
          /\ o.created < command.now

\* C16: no expiry computation overflows; the expiry the engine computes
\* for a resting order is the mathematical sum created + lifetime; flush
\* removes no resting order at a time before that sum, and a command that
\* returns at a time at or after it leaves the order out of the book.
ExpiryArithmetic ==
    [][/\ panic' # ArithmeticOverflow
       /\ \A o \in BookOrders(buy', sell') : OrderExpiry(o) = ExpiryOf(o)
       /\ \A o \in BookOrders(buy, sell) :
             /\ o.uuid \in flushed' => ExpiryOf(o) <= command'.now
             /\ (panic' = NoPanic /\ command'.kind # "rejected"
                    /\ ExpiryOf(o) <= command'.now)
                   => o.uuid \notin RestingIds(buy', sell')]_vars

\* The orders that rest before the step and are neither in the closed set
\* of the step nor makers of one of its fills.
Bystanders ==
    {o \in BookOrders(buy, sell) :
        /\ o.uuid \notin result'.closed
        /\ \A i \in DOMAIN result'.fills : result'.fills[i].maker_uuid # o.uuid}

\* The book keys and index entries of the order o in the book sides b and
\* s, the id index ids and the expiry index expiries.
Entries(b, s, ids, expiries, o) ==
    [buy |-> {k \in DOMAIN b : b[k] = o},
     sell |-> {k \in DOMAIN s : s[k] = o},
     locator |-> IF o.uuid \in DOMAIN ids THEN {ids[o.uuid]} ELSE {},
     expiry |-> {t \in DOMAIN expiries : expiries[t] = o.uuid}]

\* C17: a Cancel or a Flush has no fills, and every command leaves each
\* resting order that it neither closes nor fills where it was, with all
\* its fields and its id-index and expiry-index entries; only orders in
\* closed leave the book.
FrameOfCommands ==
    [][panic' = NoPanic =>
         /\ command'.kind \in {"cancel", "flush"} => result'.fills = <<>>
         /\ \A o \in Bystanders :
               Entries(buy', sell', uuid_to_side_price_time', expiry_to_uuid', o)
                   = Entries(buy, sell, uuid_to_side_price_time, expiry_to_uuid, o)
         /\ \A o \in BookOrders(buy, sell) :
               o.uuid \notin RestingIds(buy', sell') => o.uuid \in result'.closed]_vars

\* C18: no resting buy order has a price >= the price of a resting sell
\* order.
BookNeverCrossed ==
    \A b \in Range(buy), s \in Range(sell) : b.price < s.price

\* A limit order was partially filled and rests opposite to a side that
\* still holds orders.
UncrossedWitness ==
    /\ Returned /\ command.kind = "limit"
    /\ Len(result.fills) >= 1
    /\ command.uuid \in RestingIds(buy, sell)
    /\ Range(buy) # {} /\ Range(sell) # {}

\* The ids placed by earlier commands whose orders are no longer live: each
\* was closed by the command that ended it.
Gone == used \ (LiveUuids \cup RestingIds(buy, sell))

\* C19: an id whose order has left the book (closed by its own Place or by
\* a later match, Cancel or flush) is in no later closed set and in no
\* later fill, and the command that closes an id takes it out of the book.
ClosedOnce ==
    [][panic' = NoPanic =>
         /\ result'.closed \cap Gone = {}
         /\ \A i \in DOMAIN result'.fills :
               /\ result'.fills[i].maker_uuid \notin Gone
               /\ result'.fills[i].taker_uuid \notin Gone
         /\ result'.closed \cap (LiveUuids' \cup RestingIds(buy', sell')) = {}
         /\ result'.closed \subseteq used']_vars

\* A Cancel named an id whose order had already left the book and reported
\* nothing.
ClosedOnceWitness ==
    /\ Returned /\ command.kind = "cancel"
    /\ command.uuid \in used
    /\ command.uuid \notin RestingIds(buy, sell)
    /\ command.uuid \notin result.closed

\* C20: every entry (t -> id) of the expiry index names an order that
\* rests in the book and whose expiry is t; what a flush collects was
\* resting before the command with expiry <= now, and every remove it
\* performs succeeds.
ExpiryIndexIsLive ==
    [][/\ \A t \in DOMAIN expiry_to_uuid' :
             \E o \in BookOrders(buy', sell') :
                /\ o.uuid = expiry_to_uuid'[t]
                /\ OrderExpiry(o) = t
                /\ o.uuid \in LiveUuids'
       /\ \A id \in flushed' :
             /\ \E o \in BookOrders(buy, sell) :
                   o.uuid = id /\ OrderExpiry(o) <= command'.now
             /\ id \in LiveUuids
             /\ id \notin RestingIds(buy', sell')
             /\ id \notin LiveUuids'
       /\ (command'.kind = "flush" /\ command'.now > last_tick) => panic' = NoPanic]_vars

\* A flush collected a due order while another order kept resting.
ExpiryIndexWitness ==
    /\ Returned /\ command.kind = "flush"
    /\ flushed # {}
    /\ DOMAIN expiry_to_uuid # {}

====
